---- MODULE Spec2Model ----
(***************************************************************************)
(* A model of barcode_generator.py (class BarcodeGenerator).               *)
(*                                                                         *)
(* Text is modelled as a sequence of one-character strings, so that        *)
(* concatenation, length, substitution and splitting are computed          *)
(* character by character.                                                 *)
(*                                                                         *)
(* Four specifications share the module:                                   *)
(*   FnSpec    the pure functions (_sanitize_filename, the payload         *)
(*             f-string) applied to inputs drawn from bounded sets;        *)
(*   BatchSpec generate_batch_serials, one step per loop iteration, with   *)
(*             the fairness of a random source that keeps producing every  *)
(*             digit string;                                               *)
(*   Spec      one caller: construction, generate_barcode and its two      *)
(*             wrappers, with the collaborators' failures;                 *)
(*   ConcSpec  two callers whose constructions and generate_barcode calls  *)
(*             interleave on one filesystem and one clock.                 *)
(***************************************************************************)
EXTENDS Integers, Sequences, FiniteSets, TLC

VARIABLES
    \* ---- FnSpec: one application of a pure function
    fn_pc,        \* "idle" | "in" | "sanitized" | "resanitized" | "formatted"
    fn_serial,    \* serial_number / filename argument
    fn_cycles,    \* service_cycles argument
    fn_part,      \* part_number argument
    fn_out,       \* value of _sanitize_filename(fn_serial)
    fn_out2,      \* value of _sanitize_filename(fn_out)
    fn_payload,   \* value of the barcode_data f-string
    \* ---- BatchSpec: one call of generate_batch_serials
    b_pc,         \* "idle" | "call" | "loop" | "returned"
    b_count, b_prefix, b_length,   \* the arguments
    b_serials,    \* the local set `serials`
    b_drew,       \* whether generate_random_serial was called in this call
    b_result,     \* the returned list
    \* ---- Spec / ConcSpec: callers of a BarcodeGenerator
    fsDirs,       \* directories that exist on the filesystem
    clock,        \* seconds elapsed on the wall clock since BaseTime
    pc,           \* per caller: position in __init__ / generate_barcode
    output_dir,   \* per caller: self.output_dir of its generator
    dirAtCall,    \* per caller: self.output_dir when its current call began
    mkdirLog,     \* per caller: arguments of os.makedirs calls of its construction
    kind,         \* per caller: which public method the current call entered
    wargs,        \* per caller: the arguments of that method
    drawn,        \* per caller: serials drawn by generate_random_serial in the call
    gbLog,        \* per caller: argument triples of generate_barcode calls in the call
    loc,          \* per caller: locals of generate_barcode
    nowRead,      \* per caller: the datetime that datetime.now() returned
    renderLog,    \* per caller: arguments of barcode.get calls in the call
    saveLog,      \* per caller: arguments of code128.save calls in the call
    reported,     \* per caller: the path code128.save returned
    raisedBy,     \* per caller: the exception a collaborator raised
    err,          \* per caller: the exception that left the method
    ret           \* per caller: the value the method returned

fnVars    == <<fn_pc, fn_serial, fn_cycles, fn_part, fn_out, fn_out2, fn_payload>>
batchVars == <<b_pc, b_count, b_prefix, b_length, b_serials, b_drew, b_result>>
genVars   == <<fsDirs, clock, pc, output_dir, dirAtCall, mkdirLog, kind, wargs, drawn,
               gbLog, loc, nowRead, renderLog, saveLog, reported, raisedBy, err, ret>>
vars      == <<fnVars, batchVars, genVars>>

\* None where a text is expected: no text has an element of four characters
None == <<"None">>

\* no exception, no method
Nothing == "nothing"

\* no datetime read yet
NoTime == [Y |-> 0, M |-> 0, D |-> 0, h |-> 0, m |-> 0, s |-> 0]

(***************************************************************************)
(* Bounds of the model.                                                    *)
(***************************************************************************)
MaxLen   == 2      \* longest filename FnSpec sanitizes
MaxCount == 11     \* largest count BatchSpec asks for
MaxTick  == 3      \* seconds the clock advances

(***************************************************************************)
(* Text helpers.                                                           *)
(***************************************************************************)
\* string.digits
Digits == <<"0", "1", "2", "3", "4", "5", "6", "7", "8", "9">>

DigitSet == {Digits[i] : i \in 1..10}

StrsOfLen(alphabet, n) == [1..n -> alphabet]

StrsUpTo(alphabet, n) == UNION {StrsOfLen(alphabet, k) : k \in 0..n}

RECURSIVE NatStr(_)
\* decimal text of a natural number, as str.format / f-string conversion of an int
NatStr(n) ==
    IF n < 10 THEN <<Digits[n + 1]>>
    ELSE NatStr(n \div 10) \o <<Digits[(n % 10) + 1]>>

\* f"{i}" for an int i
IntStr(i) == IF i < 0 THEN <<"-">> \o NatStr(-i) ELSE NatStr(i)

RECURSIVE ZeroPad(_, _)
\* zero-padded decimal field of strftime (%Y: 4, %m %d %H %M %S: 2)
ZeroPad(n, w) ==
    LET t == NatStr(n)
    IN  IF Len(t) >= w THEN t ELSE <<"0">> \o ZeroPad(n, w - 1)

(***************************************************************************)
(* _sanitize_filename: re.sub(r'[\\/*?:"<>|]', '_', filename).             *)
(***************************************************************************)
\* the character class of the pattern
InvalidChars == {"\\", "/", "*", "?", ":", "\"", "<", ">", "|"}

\* a plausible slip: the class without the pipe
sanitize_filename_no_pipe(filename) ==
    [i \in 1..Len(filename) |->
        IF filename[i] \in InvalidChars \ {"|"} THEN "_" ELSE filename[i]]

\* every match of the class is replaced by '_', everything else is copied
sanitize_filename(filename) ==
    [i \in 1..Len(filename) |->
        IF filename[i] \in InvalidChars THEN "_" ELSE filename[i]]

(***************************************************************************)
(* The payload: f"SN:{serial_number}|SC:{service_cycles}|PN:{part_number}" *)
(***************************************************************************)
\* a plausible slip: the sanitized serial in the payload
BarcodeDataSanitized(serial_number, service_cycles, part_number) ==
    <<"S", "N", ":">> \o sanitize_filename(serial_number)
        \o <<"|", "S", "C", ":">> \o IntStr(service_cycles)
        \o <<"|", "P", "N", ":">> \o part_number

BarcodeData(serial_number, service_cycles, part_number) ==
    <<"S", "N", ":">> \o serial_number
        \o <<"|", "S", "C", ":">> \o IntStr(service_cycles)
        \o <<"|", "P", "N", ":">> \o part_number

(***************************************************************************)
(* FnSpec: the pure functions applied to inputs drawn from bounded sets.   *)
(***************************************************************************)
\* the nine characters of the class, two that it leaves alone
FnAlphabet == InvalidChars \cup {"a", "_"}

FnParts == {<< >>, <<"P", "-", "1">>, <<"x", "|", "y">>}

FnCycles == {-7, 0, 5000}

GenIdle ==
    /\ fsDirs = {}
    /\ clock = 0
    /\ pc = << >>
    /\ output_dir = << >>
    /\ dirAtCall = << >>
    /\ mkdirLog = << >>
    /\ kind = << >>
    /\ wargs = << >>
    /\ drawn = << >>
    /\ gbLog = << >>
    /\ loc = << >>
    /\ nowRead = << >>
    /\ renderLog = << >>
    /\ saveLog = << >>
    /\ reported = << >>
    /\ raisedBy = << >>
    /\ err = << >>
    /\ ret = << >>

BatchIdle ==
    /\ b_pc = "idle"
    /\ b_count = 0
    /\ b_prefix = << >>
    /\ b_length = 0
    /\ b_serials = {}
    /\ b_drew = FALSE
    /\ b_result = << >>

FnIdle ==
    /\ fn_pc = "idle"
    /\ fn_serial = << >>
    /\ fn_cycles = 0
    /\ fn_part = << >>
    /\ fn_out = None
    /\ fn_out2 = None
    /\ fn_payload = None

FnInit ==
    /\ fn_pc = "in"
    /\ fn_serial \in StrsUpTo(FnAlphabet, MaxLen)
    /\ fn_cycles \in FnCycles
    /\ fn_part \in FnParts
    /\ fn_out = None
    /\ fn_out2 = None
    /\ fn_payload = None
    /\ BatchIdle
    /\ GenIdle

\* safe_serial = self._sanitize_filename(serial_number)
FnSanitize ==
    /\ fn_pc = "in"
    /\ fn_out' = sanitize_filename(fn_serial)
    /\ fn_pc' = "sanitized"
    /\ UNCHANGED <<fn_serial, fn_cycles, fn_part, fn_out2, fn_payload, batchVars, genVars>>

\* _sanitize_filename applied to its own result
FnSanitizeAgain ==
    /\ fn_pc = "sanitized"
    /\ fn_out2' = sanitize_filename(fn_out)
    /\ fn_pc' = "resanitized"
    /\ UNCHANGED <<fn_serial, fn_cycles, fn_part, fn_out, fn_payload, batchVars, genVars>>

\* barcode_data = f"SN:{serial_number}|SC:{service_cycles}|PN:{part_number}"
FnFormat ==
    /\ fn_pc = "in"
    /\ fn_payload' = BarcodeData(fn_serial, fn_cycles, fn_part)
    /\ fn_pc' = "formatted"
    /\ UNCHANGED <<fn_serial, fn_cycles, fn_part, fn_out, fn_out2, batchVars, genVars>>

FnNext == FnSanitize \/ FnSanitizeAgain \/ FnFormat

FnSpec == FnInit /\ [][FnNext]_vars

(***************************************************************************)
(* C1                                                                      *)
(***************************************************************************)
\* the nine characters as the specification lists them
NineChars == {"\\", "/", "*", "?", ":", "\"", "<", ">", "|"}

\* C1: the sanitized name has the length of the input; a position holding one
\* of the nine characters \ / * ? : " < > | holds '_', every other position
\* holds the input's character; so the result contains none of the nine, and
\* sanitizing the result again returns it unchanged.
C1_SanitizeExact ==
    /\ fn_pc \in {"sanitized", "resanitized"} =>
        /\ Len(fn_out) = Len(fn_serial)
        /\ \A i \in 1..Len(fn_serial) :
              /\ fn_serial[i] \in NineChars => fn_out[i] = "_"
              /\ fn_serial[i] \notin NineChars => fn_out[i] = fn_serial[i]
        /\ \A i \in 1..Len(fn_out) : fn_out[i] \notin NineChars
    /\ fn_pc = "resanitized" => fn_out2 = fn_out

\* a name holding a pipe and an untouched character has been sanitized twice
C1_Witness ==
    /\ fn_pc = "resanitized"
    /\ \E i \in 1..Len(fn_serial) : fn_serial[i] = "|"
    /\ \E i \in 1..Len(fn_serial) : fn_serial[i] = "a"
    /\ fn_out # fn_serial

(***************************************************************************)
(* C4                                                                      *)
(***************************************************************************)
\* str.split(sep) for a one-character separator
Split(s, sep) ==
    LET F[i \in 0..Len(s)] ==
            IF i = 0 THEN << << >> >>
            ELSE IF s[i] = sep THEN Append(F[i - 1], << >>)
            ELSE [F[i - 1] EXCEPT ![Len(F[i - 1])] = Append(@, s[i])]
    IN  F[Len(s)]

\* the fields read back from a payload: split on '|', then each piece on ':'
ParsePayload(payload) ==
    LET pieces == Split(payload, "|")
    IN  [k \in 1..Len(pieces) |-> Split(pieces[k], ":")]

FnTriples == StrsUpTo(FnAlphabet, MaxLen) \X FnCycles \X FnParts

\* C4: the payload is lossless: splitting it on '|' and each piece on ':'
\* gives back exactly the three fields under the labels SN, SC and PN, and no
\* other triple of fields produces the same payload.
C4_Lossless ==
    fn_pc = "formatted" =>
        /\ ParsePayload(fn_payload) =
              << << <<"S", "N">>, fn_serial >>,
                 << <<"S", "C">>, IntStr(fn_cycles) >>,
                 << <<"P", "N">>, fn_part >> >>
        /\ \A t \in FnTriples :
              BarcodeData(t[1], t[2], t[3]) = fn_payload
                  => t = <<fn_serial, fn_cycles, fn_part>>

(***************************************************************************)
(* generate_random_serial and generate_batch_serials.                      *)
(***************************************************************************)
\* ''.join(random.choices(string.digits, k=length)): every outcome of the draw
RandomChoices(k) == StrsOfLen(DigitSet, IF k < 0 THEN 0 ELSE k)

\* f"{prefix}{digits}"
generate_random_serial(prefix, digits) == prefix \o digits

\* a plausible slip: <= for <
LoopCondLE(serials, count) == Cardinality(serials) <= count

\* a plausible repair: stop at ten values whatever the length
LoopCondCapped(serials, count) ==
    Cardinality(serials) < count /\ Cardinality(serials) < 10

\* while len(serials) < count
LoopCond(serials, count) == Cardinality(serials) < count

RECURSIVE ListOf(_)
\* list(serials): the elements in some order, each once
ListOf(S) ==
    IF S = {} THEN << >>
    ELSE LET x == CHOOSE y \in S : TRUE IN <<x>> \o ListOf(S \ {x})

BatchPrefixes == {<<"S", "N">>, <<"7">>, << >>}

BatchLengths == {0, 1}

BatchDigitStrs == UNION {RandomChoices(k) : k \in BatchLengths}

BatchInit ==
    /\ b_pc = "call"
    /\ b_count \in -1..MaxCount
    /\ b_prefix \in BatchPrefixes
    /\ b_length \in BatchLengths
    /\ b_serials = {}
    /\ b_drew = FALSE
    /\ b_result = << >>
    /\ FnIdle
    /\ GenIdle

\* serials = set()
BatchEnter ==
    /\ b_pc = "call"
    /\ b_serials' = {}
    /\ b_pc' = "loop"
    /\ UNCHANGED <<b_count, b_prefix, b_length, b_drew, b_result, fnVars, genVars>>

\* one iteration: serials.add(self.generate_random_serial(prefix, length))
BatchDraw(digits) ==
    /\ b_pc = "loop"
    /\ LoopCond(b_serials, b_count)
    /\ digits \in RandomChoices(b_length)
    /\ b_serials' = b_serials \cup {generate_random_serial(b_prefix, digits)}
    /\ b_drew' = TRUE
    /\ UNCHANGED <<b_pc, b_count, b_prefix, b_length, b_result, fnVars, genVars>>

\* the loop condition is false: return list(serials)
BatchReturn ==
    /\ b_pc = "loop"
    /\ ~LoopCond(b_serials, b_count)
    /\ b_result' = ListOf(b_serials)
    /\ b_pc' = "returned"
    /\ UNCHANGED <<b_count, b_prefix, b_length, b_serials, b_drew, fnVars, genVars>>

BatchNext ==
    \/ BatchEnter
    \/ \E digits \in BatchDigitStrs : BatchDraw(digits)
    \/ BatchReturn

\* the interpreter keeps running the call, and the random source keeps
\* producing every digit string of the requested length
BatchFair ==
    /\ WF_vars(BatchEnter)
    /\ WF_vars(BatchReturn)
    /\ \A digits \in BatchDigitStrs : WF_vars(BatchDraw(digits))

BatchSpec == BatchInit /\ [][BatchNext]_vars /\ BatchFair

(***************************************************************************)
(* C5                                                                      *)
(***************************************************************************)
\* C5: whenever generate_batch_serials returns, whatever was drawn, the list
\* has exactly count elements (none when count <= 0, and then nothing was
\* drawn), no element occurs twice, and every element is the prefix followed
\* by exactly length decimal digits.
C5_BatchShape ==
    b_pc = "returned" =>
        /\ b_count >= 0 => Len(b_result) = b_count
        /\ b_count <= 0 => b_result = << >> /\ ~b_drew
        /\ \A i, j \in 1..Len(b_result) : b_result[i] = b_result[j] => i = j
        /\ \A i \in 1..Len(b_result) :
              /\ Len(b_result[i]) = Len(b_prefix) + b_length
              /\ SubSeq(b_result[i], 1, Len(b_prefix)) = b_prefix
              /\ \A k \in (Len(b_prefix) + 1)..Len(b_result[i]) :
                    b_result[i][k] \in {"0", "1", "2", "3", "4", "5", "6", "7", "8", "9"}

\* a batch of three one-digit serials has been returned
C5_Witness ==
    /\ b_pc = "returned"
    /\ b_count = 3
    /\ b_length = 1
    /\ Len(b_result) = 3

(***************************************************************************)
(* C6                                                                      *)
(***************************************************************************)
\* C6: with count > 10^length the call never returns: the set stops growing
\* at 10^length values and the loop condition stays true; with
\* count <= 10^length the call returns eventually, the random source being
\* fair.
C6_Termination ==
    /\ [](b_count > 10 ^ b_length => b_pc # "returned")
    /\ [](b_pc \in {"loop", "returned"} => Cardinality(b_serials) <= 10 ^ b_length)
    /\ [](b_pc = "loop" /\ b_count > 10 ^ b_length => LoopCond(b_serials, b_count))
    /\ (b_pc = "call" /\ b_count <= 10 ^ b_length) ~> (b_pc = "returned")

\* eleven one-digit serials were asked for and all ten values are collected
C6_Witness ==
    /\ b_pc = "loop"
    /\ b_length = 1
    /\ b_count > 10 ^ b_length
    /\ Cardinality(b_serials) = 10 ^ b_length

(***************************************************************************)
(* The wall clock and datetime.now().strftime("%Y%m%d%H%M%S").             *)
(***************************************************************************)
\* the wall clock when the model starts: two seconds before a new year
BaseTime == [Y |-> 2024, M |-> 12, D |-> 31, h |-> 23, m |-> 59, s |-> 58]

IsLeap(y) == (y % 4 = 0 /\ y % 100 # 0) \/ y % 400 = 0

DaysInMonth(y, m) ==
    IF m = 2 THEN (IF IsLeap(y) THEN 29 ELSE 28)
    ELSE IF m \in {4, 6, 9, 11} THEN 30 ELSE 31

\* the datetime one second after dt
AddSecond(dt) ==
    IF dt.s < 59 THEN [dt EXCEPT !.s = dt.s + 1]
    ELSE IF dt.m < 59 THEN [dt EXCEPT !.s = 0, !.m = dt.m + 1]
    ELSE IF dt.h < 23 THEN [dt EXCEPT !.s = 0, !.m = 0, !.h = dt.h + 1]
    ELSE IF dt.D < DaysInMonth(dt.Y, dt.M)
        THEN [dt EXCEPT !.s = 0, !.m = 0, !.h = 0, !.D = dt.D + 1]
    ELSE IF dt.M < 12
        THEN [dt EXCEPT !.s = 0, !.m = 0, !.h = 0, !.D = 1, !.M = dt.M + 1]
    ELSE [Y |-> dt.Y + 1, M |-> 1, D |-> 1, h |-> 0, m |-> 0, s |-> 0]

RECURSIVE DateTimeAt(_)
\* datetime.now() when the clock shows n seconds past BaseTime
DateTimeAt(n) == IF n = 0 THEN BaseTime ELSE AddSecond(DateTimeAt(n - 1))

\* a plausible slip: the format without %S
StrftimeNoSeconds(dt) ==
    ZeroPad(dt.Y, 4) \o ZeroPad(dt.M, 2) \o ZeroPad(dt.D, 2)
        \o ZeroPad(dt.h, 2) \o ZeroPad(dt.m, 2)

\* dt.strftime("%Y%m%d%H%M%S")
Strftime(dt) ==
    ZeroPad(dt.Y, 4) \o ZeroPad(dt.M, 2) \o ZeroPad(dt.D, 2)
        \o ZeroPad(dt.h, 2) \o ZeroPad(dt.m, 2) \o ZeroPad(dt.s, 2)

(***************************************************************************)
(* generate_barcode and its wrappers: the values they compute.             *)
(***************************************************************************)
\* f"{self.output_dir}/barcode_{safe_serial}_{timestamp}"
Filename(dir, safe_serial, timestamp) ==
    dir \o <<"/", "b", "a", "r", "c", "o", "d", "e", "_">> \o safe_serial
        \o <<"_">> \o timestamp

\* a plausible slip: the requested stem returned for the saved path
FullPathStem(saved, filename) == filename

\* full_path = code128.save(filename); return full_path
FullPath(saved, filename) == saved

\* a plausible slip: the exception wrapped in one of the generator's own
PropagateWrapped(e) == "BarcodeError"

\* no try/except anywhere: what a collaborator raises leaves the method as it is
Propagate(e) == e

\* an argument left to its default; a given argument v is <<v>>
Omitted == << >>

DefaultCycles == 1000

\* default_cycles: int = 1000
DefaultCyclesArg(dc) == IF dc = Omitted THEN DefaultCycles ELSE dc[1]

\* self.generate_barcode(serial_number, default_cycles, part_number)
ForwardDefaultCycles(serial_number, part_number, default_cycles) ==
    <<serial_number, default_cycles, part_number>>

\* self.generate_barcode(serial_number, service_cycles, part_number)
ForwardRandomSerial(serial_number, service_cycles, part_number) ==
    <<serial_number, service_cycles, part_number>>

\* a plausible slip: the pair the other way round
MethodReturnSwapped(k, barcode_path, serial_number) ==
    IF k = "random_serial" THEN <<serial_number, barcode_path>> ELSE barcode_path

\* what the public method returns: the path, or (barcode_path, serial_number)
MethodReturn(k, barcode_path, serial_number) ==
    IF k = "random_serial" THEN <<barcode_path, serial_number>> ELSE barcode_path

(***************************************************************************)
(* The collaborators: the filesystem, the renderer and its save operation. *)
(***************************************************************************)
\* os.makedirs(d): fails when d exists (exist_ok is not passed), may fail for
\* reasons of its own, and otherwise creates d
MakedirsOutcomes(d, fs) ==
    IF d \in fs THEN {"FileExistsError"} ELSE {"ok", "PermissionError"}

\* barcode.get('code128', data, writer=...): a symbol object, or a failure
RenderOutcomes == {"ok", "IllegalCharacterError"}

\* code128.save(filename): the final path, or a failure
SaveOutcomes == {"ok", "OSError"}

\* the path save reports: the stem with the format's extension, or any other
SavePaths(filename) ==
    {filename \o <<".", "j", "p", "e", "g">>, <<"t", ".", "j", "p", "e", "g">>}

(***************************************************************************)
(* Callers and their inputs.                                               *)
(***************************************************************************)
Callers == {"c1", "c2"}

SeqCallers == {"c1"}

Dirs == {<<"o", "u", "t">>, <<"b">>}

Serials == {<<"S", "N", "1">>, <<"a", "/", "b">>, <<"a", ":", "b">>, << >>}

Cycles == {-3, 0, 5000}

Parts == {<<"P", "N", "-", "1">>, << >>}

Prefixes == {<<"S", "N">>, << >>}

WrapLengths == {0, 1}

ConcSerials == {<<"a", "/", "b">>, <<"a", ":", "b">>, <<"x">>}

NoLocals ==
    [barcode_data |-> None, timestamp |-> None, safe_serial |-> None,
     filename |-> None, full_path |-> None]

GenInit ==
    /\ fsDirs \in SUBSET Dirs
    /\ clock = 0
    /\ pc = [p \in Callers |-> "start"]
    /\ output_dir = [p \in Callers |-> None]
    /\ dirAtCall = [p \in Callers |-> None]
    /\ mkdirLog = [p \in Callers |-> << >>]
    /\ kind = [p \in Callers |-> Nothing]
    /\ wargs = [p \in Callers |-> << >>]
    /\ drawn = [p \in Callers |-> << >>]
    /\ gbLog = [p \in Callers |-> << >>]
    /\ loc = [p \in Callers |-> NoLocals]
    /\ nowRead = [p \in Callers |-> NoTime]
    /\ renderLog = [p \in Callers |-> << >>]
    /\ saveLog = [p \in Callers |-> << >>]
    /\ reported = [p \in Callers |-> None]
    /\ raisedBy = [p \in Callers |-> Nothing]
    /\ err = [p \in Callers |-> Nothing]
    /\ ret = [p \in Callers |-> None]
    /\ FnIdle
    /\ BatchIdle

callVars == <<dirAtCall, kind, wargs, drawn, gbLog, loc, nowRead, renderLog,
              saveLog, reported, ret>>

\* the clock advances by a second
Tick ==
    /\ clock < MaxTick
    /\ clock' = clock + 1
    /\ UNCHANGED <<fsDirs, pc, output_dir, mkdirLog, raisedBy, err, callVars,
                   fnVars, batchVars>>

(***************************************************************************)
(* __init__                                                                *)
(***************************************************************************)
\* self.output_dir = output_dir; if not os.path.exists(output_dir): ...
CtorCheck(p, d) ==
    /\ pc[p] \in {"start", "ready", "ctor_failed"}
    /\ output_dir' = [output_dir EXCEPT ![p] = d]
    /\ mkdirLog' = [mkdirLog EXCEPT ![p] = << >>]
    /\ raisedBy' = [raisedBy EXCEPT ![p] = Nothing]
    /\ err' = [err EXCEPT ![p] = Nothing]
    /\ pc' = [pc EXCEPT ![p] = IF d \in fsDirs THEN "ready" ELSE "ctor_mkdir"]
    /\ UNCHANGED <<fsDirs, clock, callVars, fnVars, batchVars>>

\* os.makedirs(output_dir)
CtorMakedirs(p) ==
    /\ pc[p] = "ctor_mkdir"
    /\ mkdirLog' = [mkdirLog EXCEPT ![p] = Append(@, output_dir[p])]
    /\ \E outcome \in MakedirsOutcomes(output_dir[p], fsDirs) :
          IF outcome = "ok"
          THEN /\ fsDirs' = fsDirs \cup {output_dir[p]}
               /\ pc' = [pc EXCEPT ![p] = "ready"]
               /\ UNCHANGED <<raisedBy, err>>
          ELSE /\ raisedBy' = [raisedBy EXCEPT ![p] = outcome]
               /\ err' = [err EXCEPT ![p] = Propagate(outcome)]
               /\ pc' = [pc EXCEPT ![p] = "ctor_failed"]
               /\ UNCHANGED fsDirs
    /\ UNCHANGED <<clock, output_dir, callVars, fnVars, batchVars>>

(***************************************************************************)
(* generate_barcode: from its entry to the call of barcode.get.            *)
(***************************************************************************)
\* barcode_data, timestamp, safe_serial and filename are computed
EnterGenerateBarcode(p, triple) ==
    LET serial_number == triple[1]
        service_cycles == triple[2]
        part_number == triple[3]
        now == DateTimeAt(clock)
        timestamp == Strftime(now)
        safe_serial == sanitize_filename(serial_number)
    IN  /\ pc[p] = "ready"
        /\ gbLog' = [gbLog EXCEPT ![p] = <<triple>>]
        /\ loc' = [loc EXCEPT ![p] =
              [barcode_data |-> BarcodeData(serial_number, service_cycles, part_number),
               timestamp |-> timestamp,
               safe_serial |-> safe_serial,
               filename |-> Filename(output_dir[p], safe_serial, timestamp),
               full_path |-> None]]
        /\ nowRead' = [nowRead EXCEPT ![p] = now]
        /\ dirAtCall' = [dirAtCall EXCEPT ![p] = output_dir[p]]
        /\ renderLog' = [renderLog EXCEPT ![p] = << >>]
        /\ saveLog' = [saveLog EXCEPT ![p] = << >>]
        /\ reported' = [reported EXCEPT ![p] = None]
        /\ ret' = [ret EXCEPT ![p] = None]
        /\ raisedBy' = [raisedBy EXCEPT ![p] = Nothing]
        /\ err' = [err EXCEPT ![p] = Nothing]
        /\ pc' = [pc EXCEPT ![p] = "gb_render"]
        /\ UNCHANGED <<fsDirs, clock, output_dir, mkdirLog, fnVars, batchVars>>

\* generate_barcode(serial_number, service_cycles, part_number)
generate_barcode(p, serial_number, service_cycles, part_number) ==
    /\ pc[p] = "ready"
    /\ kind' = [kind EXCEPT ![p] = "generate_barcode"]
    /\ wargs' = [wargs EXCEPT ![p] =
          [serial_number |-> serial_number, service_cycles |-> service_cycles,
           part_number |-> part_number]]
    /\ drawn' = [drawn EXCEPT ![p] = << >>]
    /\ EnterGenerateBarcode(p, <<serial_number, service_cycles, part_number>>)

\* generate_barcode_with_default_cycles(serial_number, part_number[, default_cycles])
generate_barcode_with_default_cycles(p, serial_number, part_number, dc) ==
    /\ pc[p] = "ready"
    /\ kind' = [kind EXCEPT ![p] = "default_cycles"]
    /\ wargs' = [wargs EXCEPT ![p] =
          [serial_number |-> serial_number, part_number |-> part_number,
           default_cycles |-> dc]]
    /\ drawn' = [drawn EXCEPT ![p] = << >>]
    /\ EnterGenerateBarcode(p,
          ForwardDefaultCycles(serial_number, part_number, DefaultCyclesArg(dc)))

\* generate_barcode_with_random_serial(part_number, service_cycles, prefix, length)
generate_barcode_with_random_serial(p, part_number, service_cycles, prefix, length, digits) ==
    /\ pc[p] = "ready"
    /\ digits \in RandomChoices(length)
    /\ kind' = [kind EXCEPT ![p] = "random_serial"]
    /\ wargs' = [wargs EXCEPT ![p] =
          [part_number |-> part_number, service_cycles |-> service_cycles,
           prefix |-> prefix, length |-> length]]
    /\ drawn' = [drawn EXCEPT ![p] = <<generate_random_serial(prefix, digits)>>]
    /\ EnterGenerateBarcode(p,
          ForwardRandomSerial(generate_random_serial(prefix, digits),
                              service_cycles, part_number))

\* code128 = barcode.get('code128', barcode_data, writer=ImageWriter(format='JPEG'))
GbRender(p) ==
    /\ pc[p] = "gb_render"
    /\ renderLog' = [renderLog EXCEPT ![p] =
          Append(@, [symbology |-> "code128", data |-> loc[p].barcode_data,
                     format |-> "JPEG"])]
    /\ \E outcome \in RenderOutcomes :
          IF outcome = "ok"
          THEN /\ pc' = [pc EXCEPT ![p] = "gb_save"]
               /\ UNCHANGED <<raisedBy, err>>
          ELSE /\ raisedBy' = [raisedBy EXCEPT ![p] = outcome]
               /\ err' = [err EXCEPT ![p] = Propagate(outcome)]
               /\ pc' = [pc EXCEPT ![p] = "raised"]
    /\ UNCHANGED <<fsDirs, clock, output_dir, mkdirLog, dirAtCall, kind, wargs,
                   drawn, gbLog, loc, nowRead, saveLog, reported, ret,
                   fnVars, batchVars>>

\* full_path = code128.save(filename); return full_path; the wrapper's return
GbSave(p) ==
    /\ pc[p] = "gb_save"
    /\ saveLog' = [saveLog EXCEPT ![p] = Append(@, loc[p].filename)]
    /\ \E outcome \in SaveOutcomes :
          IF outcome = "ok"
          THEN \E saved \in SavePaths(loc[p].filename) :
                  LET full_path == FullPath(saved, loc[p].filename)
                  IN  /\ reported' = [reported EXCEPT ![p] = saved]
                      /\ loc' = [loc EXCEPT ![p].full_path = full_path]
                      /\ ret' = [ret EXCEPT ![p] =
                            MethodReturn(kind[p], full_path,
                                IF drawn[p] = << >> THEN None ELSE drawn[p][1])]
                      /\ pc' = [pc EXCEPT ![p] = "returned"]
                      /\ UNCHANGED <<raisedBy, err>>
          ELSE /\ raisedBy' = [raisedBy EXCEPT ![p] = outcome]
               /\ err' = [err EXCEPT ![p] = Propagate(outcome)]
               /\ pc' = [pc EXCEPT ![p] = "raised"]
               /\ UNCHANGED <<reported, loc, ret>>
    /\ UNCHANGED <<fsDirs, clock, output_dir, mkdirLog, dirAtCall, kind, wargs,
                   drawn, gbLog, nowRead, renderLog, fnVars, batchVars>>

\* the caller is done with the outcome of its call and the frame is gone
CallerProceeds(p) ==
    /\ pc[p] \in {"returned", "raised"}
    /\ pc' = [pc EXCEPT ![p] = "ready"]
    /\ kind' = [kind EXCEPT ![p] = Nothing]
    /\ wargs' = [wargs EXCEPT ![p] = << >>]
    /\ drawn' = [drawn EXCEPT ![p] = << >>]
    /\ gbLog' = [gbLog EXCEPT ![p] = << >>]
    /\ loc' = [loc EXCEPT ![p] = NoLocals]
    /\ nowRead' = [nowRead EXCEPT ![p] = NoTime]
    /\ dirAtCall' = [dirAtCall EXCEPT ![p] = None]
    /\ renderLog' = [renderLog EXCEPT ![p] = << >>]
    /\ saveLog' = [saveLog EXCEPT ![p] = << >>]
    /\ reported' = [reported EXCEPT ![p] = None]
    /\ ret' = [ret EXCEPT ![p] = None]
    /\ raisedBy' = [raisedBy EXCEPT ![p] = Nothing]
    /\ err' = [err EXCEPT ![p] = Nothing]
    /\ UNCHANGED <<fsDirs, clock, output_dir, mkdirLog, fnVars, batchVars>>

(***************************************************************************)
(* Spec: one caller, every public method, every failure.                   *)
(***************************************************************************)
Init == GenInit

Next ==
    \/ Tick
    \/ \E p \in SeqCallers :
          \/ \E d \in Dirs : CtorCheck(p, d)
          \/ CtorMakedirs(p)
          \/ \E s \in Serials, c \in Cycles, pn \in Parts :
                generate_barcode(p, s, c, pn)
          \/ \E s \in Serials, pn \in Parts, dc \in {<<c>> : c \in Cycles} \cup {Omitted} :
                generate_barcode_with_default_cycles(p, s, pn, dc)
          \/ \E pn \in Parts, c \in Cycles, prefix \in Prefixes, length \in WrapLengths :
                \E digits \in RandomChoices(length) :
                    generate_barcode_with_random_serial(p, pn, c, prefix, length, digits)
          \/ GbRender(p)
          \/ GbSave(p)
          \/ CallerProceeds(p)

Spec == Init /\ [][Next]_vars

(***************************************************************************)
(* ConcSpec: two callers on one filesystem and one clock.                  *)
(***************************************************************************)
ConcNext ==
    \/ Tick
    \/ \E p \in Callers :
          \/ \E d \in Dirs : CtorCheck(p, d)
          \/ CtorMakedirs(p)
          \/ \E s \in ConcSerials : generate_barcode(p, s, 5000, <<"P", "N", "-", "1">>)
          \/ GbRender(p)
          \/ GbSave(p)
          \/ CallerProceeds(p)

ConcSpec == Init /\ [][ConcNext]_vars

(***************************************************************************)
(* Reading text back, for the statements below.                            *)
(***************************************************************************)
DigitValue(ch) == CHOOSE d \in 0..9 : Digits[d + 1] = ch

IsDigits(text) ==
    \A i \in 1..Len(text) : text[i] \in {"0", "1", "2", "3", "4", "5", "6", "7", "8", "9"}

\* the number a run of decimal digits denotes
DecimalValue(text) ==
    LET V[i \in 0..Len(text)] ==
            IF i = 0 THEN 0 ELSE 10 * V[i - 1] + DigitValue(text[i])
    IN  V[Len(text)]

\* the integer a decimal text with an optional minus sign denotes
SignedValue(text) ==
    IF text # << >> /\ text[1] = "-" THEN 0 - DecimalValue(Tail(text))
    ELSE DecimalValue(text)

\* text is the 14 digits YYYYMMDDHHMMSS of the datetime dt
IsTimestampOf(text, dt) ==
    /\ Len(text) = 14
    /\ IsDigits(text)
    /\ DecimalValue(SubSeq(text, 1, 4)) = dt.Y
    /\ DecimalValue(SubSeq(text, 5, 6)) = dt.M
    /\ DecimalValue(SubSeq(text, 7, 8)) = dt.D
    /\ DecimalValue(SubSeq(text, 9, 10)) = dt.h
    /\ DecimalValue(SubSeq(text, 11, 12)) = dt.m
    /\ DecimalValue(SubSeq(text, 13, 14)) = dt.s

InCall(p) == pc[p] \in {"gb_render", "gb_save", "returned", "raised"}

\* the call of caller p got past barcode.get
Rendered(p) ==
    \/ pc[p] \in {"gb_save", "returned"}
    \/ pc[p] = "raised" /\ raisedBy[p] \in SaveOutcomes

(***************************************************************************)
(* C2                                                                      *)
(***************************************************************************)
\* C2: a generate_barcode(s, c, p) call invokes the rendering step exactly
\* once, with symbology 'code128' and the payload 'SN:' s '|SC:' decimal text
\* of c '|PN:' p, s being the serial as given, not sanitized.
C2_RenderOnce ==
    \A p \in Callers :
        pc[p] \in {"gb_save", "returned", "raised"} =>
            LET a == gbLog[p][1]
            IN  /\ Len(renderLog[p]) = 1
                /\ renderLog[p][1].symbology = "code128"
                /\ renderLog[p][1].data =
                      <<"S", "N", ":">> \o a[1] \o <<"|", "S", "C", ":">>
                          \o IntStr(a[2]) \o <<"|", "P", "N", ":">> \o a[3]
                /\ SignedValue(IntStr(a[2])) = a[2]

\* a call for a serial with a slash in it and 5000 cycles has returned
C2_Witness ==
    \E p \in Callers :
        /\ pc[p] = "returned"
        /\ kind[p] = "generate_barcode"
        /\ gbLog[p][1][1] = <<"a", "/", "b">>
        /\ gbLog[p][1][2] = 5000

C7_Wrappers ==
    \A p \in Callers :
        InCall(p) =>
            /\ Len(gbLog[p]) = 1
            /\ kind[p] = "default_cycles" =>
                  /\ gbLog[p][1] =
                        <<wargs[p].serial_number,
                          IF wargs[p].default_cycles = << >> THEN 1000
                          ELSE wargs[p].default_cycles[1],
                          wargs[p].part_number>>
                  /\ pc[p] = "returned" => ret[p] = loc[p].full_path
            /\ kind[p] = "random_serial" =>
                  /\ Len(drawn[p]) = 1
                  /\ Len(drawn[p][1]) = Len(wargs[p].prefix) + wargs[p].length
                  /\ SubSeq(drawn[p][1], 1, Len(wargs[p].prefix)) = wargs[p].prefix
                  /\ IsDigits(SubSeq(drawn[p][1], Len(wargs[p].prefix) + 1,
                                     Len(drawn[p][1])))
                  /\ gbLog[p][1] =
                        <<drawn[p][1], wargs[p].service_cycles, wargs[p].part_number>>
                  /\ pc[p] = "returned" =>
                        /\ ret[p] = <<loc[p].full_path, drawn[p][1]>>
                        /\ LET head == <<"S", "N", ":">> \o ret[p][2]
                                           \o <<"|", "S", "C", ":">>
                           IN  SubSeq(renderLog[p][1].data, 1, Len(head)) = head

\* the random-serial wrapper has returned a serial of a prefix and one digit
C7_Witness ==
    \E p \in Callers :
        /\ pc[p] = "returned"
        /\ kind[p] = "random_serial"
        /\ wargs[p].length = 1
        /\ wargs[p].prefix = <<"S", "N">>
        /\ ret[p][2] = <<"S", "N", "7">>

(***************************************************************************)
(* C9                                                                      *)
(***************************************************************************)
\* C9: failures propagate unchanged and nothing is retried: a construction
\* whose directory creation fails ends with that failure after one creation
\* attempt; a call whose rendering or save step fails ends with that failure
\* and returns no path; no call invokes the rendering step or the save step
\* more than once; and no call changes the generator's output directory.
C9_Propagation ==
    \A p \in Callers :
        /\ pc[p] = "ctor_failed" =>
              /\ raisedBy[p] # Nothing
              /\ err[p] = raisedBy[p]
              /\ Len(mkdirLog[p]) = 1
        /\ pc[p] = "raised" =>
              /\ raisedBy[p] # Nothing
              /\ err[p] = raisedBy[p]
              /\ ret[p] = None
              /\ loc[p].full_path = None
        /\ pc[p] = "returned" => err[p] = Nothing
        /\ InCall(p) =>
              /\ Len(renderLog[p]) <= 1
              /\ Len(saveLog[p]) <= 1
              /\ output_dir[p] = dirAtCall[p]

\* a wrapper's call has ended with the failure of the save step
C9_Witness ==
    \E p \in Callers :
        /\ pc[p] = "raised"
        /\ kind[p] = "default_cycles"
        /\ raisedBy[p] = "OSError"
        /\ Len(saveLog[p]) = 1

(***************************************************************************)
(* C8                                                                      *)
(***************************************************************************)
\* C8: construction creates the output directory idempotently: a construction
\* invokes directory creation once, for its own directory, when its check
\* found none and not at all otherwise, the directory exists after every
\* construction that succeeded, and constructions for the same directory, in
\* whatever interleaving of their exists-checks and creations, never fail
\* because the directory is there.
C8_Idempotent ==
    \A p \in Callers :
        /\ Len(mkdirLog[p]) <= 1
        /\ Len(mkdirLog[p]) = 1 => mkdirLog[p][1] = output_dir[p]
        /\ pc[p] = "ctor_mkdir" => mkdirLog[p] = << >>
        /\ pc[p] = "ready" => output_dir[p] \in fsDirs
        /\ pc[p] = "ctor_failed" => raisedBy[p] # "FileExistsError"

(***************************************************************************)
(* C10                                                                     *)
(***************************************************************************)
\* the call of caller p has asked the save operation for a stem
Requested(p) == InCall(p) /\ Len(saveLog[p]) = 1

\* two serials that differ at most where each holds one of the nine
\* characters or the underscore that replaces them
SameAfterSanitizing(a, b) ==
    /\ Len(a) = Len(b)
    /\ \A i \in 1..Len(a) : a[i] = b[i] \/ {a[i], b[i]} \subseteq NineChars \cup {"_"}

\* C10 as stated: two generate_barcode calls against the same output directory
\* request the same stem only if they read the same clock second and have the
\* same serial number.
C10_SameStemOnlyIfSameSerial ==
    \A p, q \in Callers :
        (p # q /\ Requested(p) /\ Requested(q) /\ dirAtCall[p] = dirAtCall[q]
             /\ saveLog[p][1] = saveLog[q][1]) =>
            /\ nowRead[p] = nowRead[q]
            /\ gbLog[p][1][1] = gbLog[q][1][1]

\* C10: two generate_barcode calls against the same output directory request
\* the same stem exactly when they read the same clock second and their
\* serial numbers sanitize to the same text; calls whose serials sanitize
\* differently, or that read different clock seconds, request different stems.
C10_SameStemIffSameSanitizedSerial ==
    \A p, q \in Callers :
        (p # q /\ Requested(p) /\ Requested(q) /\ dirAtCall[p] = dirAtCall[q]) =>
            (saveLog[p][1] = saveLog[q][1]
                <=> /\ nowRead[p] = nowRead[q]
                    /\ SameAfterSanitizing(gbLog[p][1][1], gbLog[q][1][1]))

\* two calls for different serials have requested the same stem
C10_Witness ==
    \E p, q \in Callers :
        /\ p # q
        /\ Requested(p)
        /\ Requested(q)
        /\ dirAtCall[p] = dirAtCall[q]
        /\ gbLog[p][1][1] # gbLog[q][1][1]
        /\ saveLog[p][1] = saveLog[q][1]

====
